---- MODULE Spec2Model ----
(***************************************************************************)
(* Product-catalog query engine (backend/product_service.py,               *)
(* backend/database.py, backend/main.py) as a state machine.               *)
(*                                                                         *)
(* Text is modelled as a sequence of one-character strings so that         *)
(* lowercasing, the regular expression [^\w\s] and str.split() are         *)
(* computed character by character.  An Optional[T] argument is a sequence *)
(* of length 0 (None) or 1 (the value).                                    *)
(***************************************************************************)
EXTENDS Integers, Sequences, FiniteSets, TLC

VARIABLES
    PRODUCTS,         \* database.PRODUCTS: the list object get_all_products returns
    ORDERS,           \* database.ORDERS
    CO_PURCHASE_MAP,  \* database.CO_PURCHASE_MAP: id -> (id -> count)
    SEARCH_INDEX,     \* product_service.SEARCH_INDEX: token -> set of ids
    IS_INDEX_BUILT,   \* product_service.IS_INDEX_BUILT
    loaded,           \* history: the product list as the last load_data stored it
    call              \* the request being answered: operation, arguments, state before, result

progVars == <<PRODUCTS, ORDERS, CO_PURCHASE_MAP, SEARCH_INDEX, IS_INDEX_BUILT>>
vars == <<PRODUCTS, ORDERS, CO_PURCHASE_MAP, SEARCH_INDEX, IS_INDEX_BUILT, loaded, call>>

-----------------------------------------------------------------------------
(* Bounds of the model *)

\* longest product list a catalog source holds
MaxProducts == 3
\* longest order list an order source holds (analytics specification)
MaxOrders == 2
\* most line items in all orders of a source together (analytics specification)
MaxLines == 5
\* longest product list a source holds where the catalog is reloaded
MaxReload == 2
\* largest page number requested
MaxPage == 4
\* largest page size requested
MaxLimit == 2
\* largest limit asked of get_recommended_product_ids
MaxIds == 4
\* longest text handed to the normalization
MaxText == 3
\* request threads of the server's pool that run at the same time
MaxThreads == 2

-----------------------------------------------------------------------------
(* Optional values and small helpers *)

None == <<>>
Some(x) == <<x>>
IsNone(o) == o = <<>>
Val(o) == o[1]

Range(s) == {s[i] : i \in DOMAIN s}

Max2(a, b) == IF a >= b THEN a ELSE b
Min2(a, b) == IF a <= b THEN a ELSE b

\* the sequences of length 0..n over S
SeqUpTo(S, n) == UNION {[1..k -> S] : k \in 0..n}

-----------------------------------------------------------------------------
(* Characters: str.lower(), \w and \s of Python's re module *)

LowerChars == {"a", "b", "c", "d", "z"}
UpperChars == {"A", "B", "C", "D"}

lower_char(c) ==
    CASE c = "A" -> "a"
      [] c = "B" -> "b"
      [] c = "C" -> "c"
      [] c = "D" -> "d"
      [] OTHER -> c

\* str.isalnum() for one character
isalnum(c) == c \in LowerChars \cup UpperChars
\* \w: alphanumeric characters and the underscore
is_word_char(c) == isalnum(c) \/ c = "_"
\* \s
is_space(c) == c = " "

\* str.lower()
str_lower(text) == [i \in DOMAIN text |-> lower_char(text[i])]

\* re.sub(r'[^\w\s]', ' ', text)
re_sub_nonword(text) ==
    [i \in DOMAIN text |->
        IF is_word_char(text[i]) \/ is_space(text[i]) THEN text[i] ELSE " "]

\* str.split(): the maximal runs of non-whitespace characters, in order
RECURSIVE split_from(_, _, _, _)
split_from(text, i, cur, acc) ==
    IF i > Len(text)
    THEN IF cur = <<>> THEN acc ELSE Append(acc, cur)
    ELSE IF is_space(text[i])
         THEN split_from(text, i + 1, <<>>, IF cur = <<>> THEN acc ELSE Append(acc, cur))
         ELSE split_from(text, i + 1, Append(cur, text[i]), acc)

str_split(text) == split_from(text, 1, <<>>, <<>>)

\* " ".join(words)
RECURSIVE str_join(_)
str_join(words) ==
    IF words = <<>> THEN <<>>
    ELSE IF Len(words) = 1 THEN words[1]
    ELSE words[1] \o <<" ">> \o str_join(Tail(words))

\* str.strip() is non-empty
strip_nonempty(text) == \E i \in DOMAIN text : ~is_space(text[i])

-----------------------------------------------------------------------------
(* product_service.py: normalization *)

normalize_text(text) ==
    IF text = <<>> THEN <<>>
    ELSE str_join(str_split(re_sub_nonword(str_lower(text))))

normalize_tokens(text) == Range(str_split(normalize_text(text)))

normalize_key(text) == normalize_text(text)

-----------------------------------------------------------------------------
(* models.py: Product.  image_url and tags are never read by the engine and  *)
(* are left out of the record.                                               *)

Product(id, name, description, price, category, brand, rating, in_stock) ==
    [id |-> id, name |-> name, description |-> description, price |-> price,
     category |-> category, brand |-> brand, rating |-> rating,
     in_stock |-> in_stock, popularity_score |-> 0]

-----------------------------------------------------------------------------
(* product_service.py: the inverted index *)

\* f"{product.name} {product.description} {product.brand} {product.category}"
index_content(p) ==
    p.name \o <<" ">> \o p.description \o <<" ">> \o p.brand \o <<" ">> \o p.category

\* the dictionary SEARCH_INDEX holds after build_search_index(products)
build_search_index(products) ==
    LET tokens == [i \in DOMAIN products |-> normalize_tokens(index_content(products[i]))]
        all == UNION {tokens[i] : i \in DOMAIN products}
    IN  [token \in all |->
            {products[i].id : i \in {j \in DOMAIN products : token \in tokens[j]}}]

\* a loop that unites the posting sets (OR across the query tokens)
union_postings(index, tokens, candidate_ids) ==
    Some(UNION {index[t] : t \in tokens \cap DOMAIN index})

\* the loop over query_tokens: intersect the posting sets, stop at the first
\* empty intersection
RECURSIVE intersect_postings(_, _, _)
intersect_postings(index, tokens, candidate_ids) ==
    IF tokens = {} THEN candidate_ids
    ELSE LET token == CHOOSE t \in tokens : TRUE
             matches == IF token \in DOMAIN index THEN index[token] ELSE {}
             c == IF IsNone(candidate_ids) THEN matches
                  ELSE Val(candidate_ids) \cap matches
         IN  IF c = {} THEN Some({})
             ELSE intersect_postings(index, tokens \ {token}, Some(c))

\* search_with_index: the returned list and the index globals it leaves
search_with_index(query, all_products, index, built) ==
    LET rebuild == ~built \/ DOMAIN index = {}
        idx == IF rebuild THEN build_search_index(all_products) ELSE index
        query_tokens == normalize_tokens(query)
        candidate_ids == Val(intersect_postings(idx, query_tokens, None))
        items == IF query_tokens = {} THEN <<>>
                 ELSE SelectSeq(all_products, LAMBDA p : p.id \in candidate_ids)
    IN  [items |-> items, SEARCH_INDEX |-> idx, IS_INDEX_BUILT |-> (built \/ rebuild)]

-----------------------------------------------------------------------------
(* Python built-ins used by the services *)

\* the key function of each recognised sort_by
sort_key(p, sort_by) ==
    CASE sort_by = "price_asc" -> p.price
      [] sort_by = "price_desc" -> p.price
      [] sort_by = "rating" -> p.rating
      [] sort_by = "popular" -> p.popularity_score

\* a sort that is not stable: x goes in front of the elements with its key
RECURSIVE insert_before_equal(_, _, _, _)
insert_before_equal(sorted, x, sort_by, reverse) ==
    IF sorted = <<>> THEN <<x>>
    ELSE LET kx == sort_key(x, sort_by)
             kh == sort_key(Head(sorted), sort_by)
             before == IF reverse THEN kx >= kh ELSE kx <= kh
         IN  IF before THEN <<x>> \o sorted
             ELSE <<Head(sorted)>> \o insert_before_equal(Tail(sorted), x, sort_by, reverse)

\* one insertion of list.sort: x goes behind every element it does not
\* strictly precede, so equal keys keep their order (also with reverse=True)
RECURSIVE insert_stable(_, _, _, _)
insert_stable(sorted, x, sort_by, reverse) ==
    IF sorted = <<>> THEN <<x>>
    ELSE LET kx == sort_key(x, sort_by)
             kh == sort_key(Head(sorted), sort_by)
             before == IF reverse THEN kx > kh ELSE kx < kh
         IN  IF before THEN <<x>> \o sorted
             ELSE <<Head(sorted)>> \o insert_stable(Tail(sorted), x, sort_by, reverse)

RECURSIVE sort_from(_, _, _, _, _)
sort_from(items, i, acc, sort_by, reverse) ==
    IF i > Len(items) THEN acc
    ELSE sort_from(items, i + 1, insert_stable(acc, items[i], sort_by, reverse),
                   sort_by, reverse)

\* list.sort(key=..., reverse=...)
list_sort(items, sort_by, reverse) == sort_from(items, 1, <<>>, sort_by, reverse)

\* seq[start:end] with Python's treatment of negative and out-of-range indices
py_slice(s, start, end) ==
    LET n == Len(s)
        lo == IF start < 0 THEN Max2(start + n, 0) ELSE Min2(start, n)
        hi == IF end < 0 THEN Max2(end + n, 0) ELSE Min2(end, n)
    IN  IF lo < hi THEN SubSeq(s, lo + 1, hi) ELSE <<>>

\* a // b for b # 0 (floor division)
py_floordiv(a, b) == IF b > 0 THEN a \div b ELSE (0 - a) \div (0 - b)

-----------------------------------------------------------------------------
(* product_service.py: filter_products *)

\* "if search and search.strip()"
search_active(search) ==
    ~IsNone(search) /\ Val(search) # <<>> /\ strip_nonempty(Val(search))

\* "if categories:" / "if brands:"
list_active(values) == ~IsNone(values) /\ Val(values) # <<>>

\* {normalize_key(c) for c in values}
target_keys(values) == {normalize_key(Val(values)[i]) : i \in DOMAIN Val(values)}

filter_categories(products, categories) ==
    IF list_active(categories)
    THEN LET target_cats == target_keys(categories)
         IN  SelectSeq(products, LAMBDA p : normalize_key(p.category) \in target_cats)
    ELSE products

\* a brand filter that compares the raw strings instead of the normalized keys
filter_brands_exact(products, brands) ==
    IF list_active(brands)
    THEN SelectSeq(products, LAMBDA p : p.brand \in Range(Val(brands)))
    ELSE products

filter_brands(products, brands) ==
    IF list_active(brands)
    THEN LET target_brands == target_keys(brands)
         IN  SelectSeq(products, LAMBDA p : normalize_key(p.brand) \in target_brands)
    ELSE products

filter_min_price(products, min_price) ==
    IF ~IsNone(min_price)
    THEN SelectSeq(products, LAMBDA p : p.price >= Val(min_price))
    ELSE products

filter_max_price(products, max_price) ==
    IF ~IsNone(max_price)
    THEN SelectSeq(products, LAMBDA p : p.price <= Val(max_price))
    ELSE products

filter_availability(products, availability) ==
    IF ~IsNone(availability) /\ Val(availability) = "in-stock"
    THEN SelectSeq(products, LAMBDA p : p.in_stock)
    ELSE IF ~IsNone(availability) /\ Val(availability) = "sold-out"
    THEN SelectSeq(products, LAMBDA p : ~p.in_stock)
    ELSE products

\* the if/elif chain on sort_by; an unrecognised value sorts nothing
sort_stage(products, sort_by) ==
    IF IsNone(sort_by) THEN products
    ELSE CASE Val(sort_by) = "price_asc" -> list_sort(products, "price_asc", FALSE)
           [] Val(sort_by) = "price_desc" -> list_sort(products, "price_desc", TRUE)
           [] Val(sort_by) = "rating" -> list_sort(products, "rating", TRUE)
           [] Val(sort_by) = "popular" -> list_sort(products, "popular", TRUE)
           [] OTHER -> products

\* whether `products` is still the list object of get_all_products() when the
\* sort stage runs: every stage that applies rebinds it to a new list
still_catalog_list(q) ==
    /\ ~search_active(q.search)
    /\ ~list_active(q.categories)
    /\ ~list_active(q.brands)
    /\ IsNone(q.min_price)
    /\ IsNone(q.max_price)
    /\ ~(~IsNone(q.availability) /\ Val(q.availability) \in {"in-stock", "sold-out"})

\* the list the sort stage receives
filter_stage(q, searched) ==
    filter_availability(
        filter_max_price(
            filter_min_price(
                filter_brands(
                    filter_categories(searched, q.categories),
                    q.brands),
                q.min_price),
            q.max_price),
        q.availability)

\* a pagination that reports the size of the page as the total
paginate_page_count(products, page, limit) ==
    LET start == (page - 1) * limit
        paginated_items == py_slice(products, start, start + limit)
    IN  IF limit = 0
        THEN [status |-> "ZeroDivisionError"]
        ELSE [status |-> "ok",
              items |-> paginated_items,
              total |-> Len(paginated_items),
              page |-> page,
              limit |-> limit,
              total_pages |-> py_floordiv(Len(paginated_items) + limit - 1, limit)]

\* the dictionary filter_products returns (or the exception it raises)
paginate(products, page, limit) ==
    LET total_count == Len(products)
        start == (page - 1) * limit
        end == start + limit
    IN  IF limit = 0
        THEN [status |-> "ZeroDivisionError"]
        ELSE [status |-> "ok",
              items |-> py_slice(products, start, end),
              total |-> total_count,
              page |-> page,
              limit |-> limit,
              total_pages |-> py_floordiv(total_count + limit - 1, limit)]

\* filter_products(**q) run on the globals (products, index, built): what it
\* returns and the globals it leaves
filter_products(q, products, index, built) ==
    LET sr == IF search_active(q.search)
              THEN search_with_index(Val(q.search), products, index, built)
              ELSE [items |-> products, SEARCH_INDEX |-> index, IS_INDEX_BUILT |-> built]
        sorted == sort_stage(filter_stage(q, sr.items), q.sort_by)
    IN  [result |-> paginate(sorted, q.page, q.limit),
         PRODUCTS |-> IF still_catalog_list(q) THEN sorted ELSE products,
         SEARCH_INDEX |-> sr.SEARCH_INDEX,
         IS_INDEX_BUILT |-> sr.IS_INDEX_BUILT]

-----------------------------------------------------------------------------
(* product_service.py: get_faceted_metadata *)

\* ord() of the characters of the model
char_ord(c) ==
    CASE c = " " -> 32
      [] c = "!" -> 33
      [] c = "A" -> 65
      [] c = "B" -> 66
      [] c = "C" -> 67
      [] c = "D" -> 68
      [] c = "_" -> 95
      [] c = "a" -> 97
      [] c = "b" -> 98
      [] c = "c" -> 99
      [] c = "d" -> 100
      [] c = "z" -> 122

\* a < b for two str values
RECURSIVE str_less(_, _)
str_less(a, b) ==
    IF b = <<>> THEN FALSE
    ELSE IF a = <<>> THEN TRUE
    ELSE IF char_ord(Head(a)) # char_ord(Head(b)) THEN char_ord(Head(a)) < char_ord(Head(b))
    ELSE str_less(Tail(a), Tail(b))

\* sorted(names)
RECURSIVE sorted_names(_)
sorted_names(names) ==
    IF names = {} THEN <<>>
    ELSE LET m == CHOOSE x \in names : \A y \in names : y = x \/ str_less(x, y)
         IN  <<m>> \o sorted_names(names \ {m})

\* the nested helper apply_filters of get_faceted_metadata
apply_filters(products_list, q, ignore_avail, ignore_price) ==
    LET a == IF ignore_avail THEN products_list
             ELSE filter_availability(products_list, q.availability)
    IN  IF ignore_price THEN a
        ELSE filter_max_price(filter_min_price(a, q.min_price), q.max_price)

\* [{"name": k, "count": v} for k, v in sorted(counts.items())] for the counts
\* of one raw field value over a context
brand_facets_of(context) ==
    LET names == sorted_names({context[i].brand : i \in DOMAIN context})
    IN  [k \in DOMAIN names |->
            [name |-> names[k],
             count |-> Cardinality({i \in DOMAIN context : context[i].brand = names[k]})]]

cat_facets_of(context) ==
    LET names == sorted_names({context[i].category : i \in DOMAIN context})
    IN  [k \in DOMAIN names |->
            [name |-> names[k],
             count |-> Cardinality({i \in DOMAIN context : context[i].category = names[k]})]]

\* min(prices) / max(prices) of a non-empty context
min_price_of(context) ==
    CHOOSE x \in {context[i].price : i \in DOMAIN context} :
        \A i \in DOMAIN context : x <= context[i].price
max_price_of(context) ==
    CHOOSE x \in {context[i].price : i \in DOMAIN context} :
        \A i \in DOMAIN context : x >= context[i].price

\* "BRAND COUNTS (Ignore Brand Filter)": the context the brands are counted over
brand_calc_context(q, base_products) ==
    filter_categories(apply_filters(base_products, q, FALSE, FALSE), q.categories)

\* a category context that does not leave out the category selection
cat_context_selected(q, base_products) ==
    filter_brands(
        filter_categories(apply_filters(base_products, q, FALSE, FALSE), q.categories),
        q.brands)

\* "CATEGORY COUNTS (Ignore Category Filter)"
cat_calc_context(q, base_products) ==
    filter_brands(apply_filters(base_products, q, FALSE, FALSE), q.brands)

\* "AVAILABILITY COUNTS (Ignore Availability Filter)"
avail_context(q, base_products) ==
    filter_brands(
        filter_categories(apply_filters(base_products, q, TRUE, FALSE), q.categories),
        q.brands)

\* a price context that does not leave out the requested price range
price_context_bounded(q, base_products) ==
    filter_brands(
        filter_categories(apply_filters(base_products, q, FALSE, FALSE), q.categories),
        q.brands)

\* "PRICE BOUNDS (Ignore Price Filter)"
price_context(q, base_products) ==
    filter_brands(
        filter_categories(apply_filters(base_products, q, FALSE, TRUE), q.categories),
        q.brands)

\* get_faceted_metadata(**q) run on the globals: what it returns and the index
\* globals it leaves
get_faceted_metadata(q, all_products, index, built) ==
    LET sr == IF search_active(q.search)
              THEN search_with_index(Val(q.search), all_products, index, built)
              ELSE [items |-> all_products, SEARCH_INDEX |-> index, IS_INDEX_BUILT |-> built]
        base_products == sr.items
        avail == avail_context(q, base_products)
        prices == price_context(q, base_products)
        in_stock_count == Cardinality({i \in DOMAIN avail : avail[i].in_stock})
        sold_out_count == Cardinality({i \in DOMAIN avail : ~avail[i].in_stock})
    IN  [result |->
            [status |-> "ok",
             categories |-> cat_facets_of(cat_calc_context(q, base_products)),
             brands |-> brand_facets_of(brand_calc_context(q, base_products)),
             availability |->
                <<[name |-> "In Stock", value |-> "in-stock", count |-> in_stock_count],
                  [name |-> "Sold Out", value |-> "sold-out", count |-> sold_out_count]>>,
             minPrice |-> IF prices # <<>> THEN min_price_of(prices) ELSE 0,
             maxPrice |-> IF prices # <<>> THEN max_price_of(prices) ELSE 0],
         SEARCH_INDEX |-> sr.SEARCH_INDEX,
         IS_INDEX_BUILT |-> sr.IS_INDEX_BUILT]

-----------------------------------------------------------------------------
(* database.py: analytics.  An order is its list of line items; order_id,   *)
(* date, customer_id, total and the item price are never read.  A Python    *)
(* dict is insertion ordered: the neighbour map of a product is the         *)
(* sequence of its (id, count) entries in insertion order.                  *)

OrderItem(product_id, quantity) == [product_id |-> product_id, quantity |-> quantity]

EmptyDict == [k \in {} |-> 0]

\* {item.product_id for item in order.items}
order_item_ids(order) == {order.items[i].product_id : i \in DOMAIN order.items}

\* a frequency count that adds one per line item instead of one per order
RECURSIVE frequency_by_lines(_, _, _)
frequency_by_lines(orders, i, frequency_map) ==
    IF i > Len(orders) THEN frequency_map
    ELSE LET ids == order_item_ids(orders[i])
             lines(id) == Cardinality({k \in DOMAIN orders[i].items :
                                          orders[i].items[k].product_id = id})
         IN  frequency_by_lines(orders, i + 1,
                [id \in DOMAIN frequency_map \cup ids |->
                    (IF id \in DOMAIN frequency_map THEN frequency_map[id] ELSE 0)
                    + (IF id \in ids THEN lines(id) ELSE 0)])

\* the first loop of calculate_popularity_scores from order i on
RECURSIVE frequency_from(_, _, _)
frequency_from(orders, i, frequency_map) ==
    IF i > Len(orders) THEN frequency_map
    ELSE LET unique_items_in_order == order_item_ids(orders[i])
         IN  frequency_from(orders, i + 1,
                [id \in DOMAIN frequency_map \cup unique_items_in_order |->
                    (IF id \in DOMAIN frequency_map THEN frequency_map[id] ELSE 0)
                    + (IF id \in unique_items_in_order THEN 1 ELSE 0)])

\* the products after calculate_popularity_scores(products, orders)
calculate_popularity_scores(products, orders) ==
    LET frequency_map == frequency_from(orders, 1, EmptyDict)
    IN  IF products = <<>> THEN <<>>
        ELSE
        [i \in DOMAIN products |->
            [products[i] EXCEPT !.popularity_score =
                IF products[i].id \in DOMAIN frequency_map
                THEN frequency_map[products[i].id] ELSE 0]]

\* d[k] = d.get(k, 0) + 1 on an insertion-ordered dict
RECURSIVE dict_increment(_, _)
dict_increment(neighbors, k) ==
    IF neighbors = <<>> THEN <<[id |-> k, count |-> 1]>>
    ELSE IF Head(neighbors).id = k
         THEN <<[id |-> k, count |-> Head(neighbors).count + 1]>> \o Tail(neighbors)
         ELSE <<Head(neighbors)>> \o dict_increment(Tail(neighbors), k)

\* "if p1 not in CO_PURCHASE_MAP: CO_PURCHASE_MAP[p1] = {}" and the increment
link(graph, p1, p2) ==
    [k \in DOMAIN graph \cup {p1} |->
        IF k = p1
        THEN dict_increment(IF p1 \in DOMAIN graph THEN graph[p1] ELSE <<>>, p2)
        ELSE graph[k]]

\* a double loop that links p1 -> p2 only
RECURSIVE link_pairs_one_way(_, _, _, _)
link_pairs_one_way(graph, item_ids, i, j) ==
    IF i > Len(item_ids) THEN graph
    ELSE IF j > Len(item_ids) THEN link_pairs_one_way(graph, item_ids, i + 1, i + 2)
    ELSE link_pairs_one_way(link(graph, item_ids[i], item_ids[j]), item_ids, i, j + 1)

\* the double loop over item_ids from the pair (i, j) on
RECURSIVE link_pairs(_, _, _, _)
link_pairs(graph, item_ids, i, j) ==
    IF i > Len(item_ids) THEN graph
    ELSE IF j > Len(item_ids) THEN link_pairs(graph, item_ids, i + 1, i + 2)
    ELSE link_pairs(link(link(graph, item_ids[i], item_ids[j]), item_ids[j], item_ids[i]),
                    item_ids, i, j + 1)

\* list(a_set): the iteration order of a set of str is not fixed
set_as_lists(S) ==
    {s \in [1..Cardinality(S) -> S] : \A i, j \in DOMAIN s : i # j => s[i] # s[j]}

\* the graphs build_recommendation_graph can leave, from order i on
RECURSIVE graphs_from(_, _, _)
graphs_from(orders, i, graph) ==
    IF i > Len(orders) THEN {graph}
    ELSE UNION {graphs_from(orders, i + 1, link_pairs(graph, item_ids, 1, 2)) :
                    item_ids \in set_as_lists(order_item_ids(orders[i]))}

build_recommendation_graph(orders) == graphs_from(orders, 1, EmptyDict)

\* a neighbour sort in ascending order of count
RECURSIVE insert_neighbor_ascending(_, _)
insert_neighbor_ascending(sorted, x) ==
    IF sorted = <<>> THEN <<x>>
    ELSE IF x.count < Head(sorted).count THEN <<x>> \o sorted
    ELSE <<Head(sorted)>> \o insert_neighbor_ascending(Tail(sorted), x)

\* sorted(neighbors.items(), key=count, reverse=True): stable on insertion order
RECURSIVE insert_neighbor(_, _)
insert_neighbor(sorted, x) ==
    IF sorted = <<>> THEN <<x>>
    ELSE IF x.count > Head(sorted).count THEN <<x>> \o sorted
    ELSE <<Head(sorted)>> \o insert_neighbor(Tail(sorted), x)

RECURSIVE sorted_neighbors_from(_, _, _)
sorted_neighbors_from(neighbors, i, acc) ==
    IF i > Len(neighbors) THEN acc
    ELSE sorted_neighbors_from(neighbors, i + 1, insert_neighbor(acc, neighbors[i]))

get_recommended_product_ids(product_id, limit, graph) ==
    IF product_id \notin DOMAIN graph THEN <<>>
    ELSE LET sorted_neighbors == sorted_neighbors_from(graph[product_id], 1, <<>>)
             top == py_slice(sorted_neighbors, 0, limit)
         IN  [i \in DOMAIN top |-> top[i].id]

\* main.py get_recommendations
get_recommendations(product_id, all_products, graph) ==
    LET rec_ids == get_recommended_product_ids(product_id, 3, graph)
    IN  SelectSeq(all_products, LAMBDA p : p.id \in Range(rec_ids))

-----------------------------------------------------------------------------
(* database.py: load_data.  A source file is its outcome when opened and    *)
(* parsed: "ok" with the records it holds, "missing" (FileNotFoundError),   *)
(* "corrupt" (json.JSONDecodeError) or "invalid" (a record pydantic         *)
(* rejects: ValidationError, which load_data does not catch).               *)

Source(kind, data) == [kind |-> kind, data |-> data]

\* step 1, "Load Products"
load_products(psrc, products) ==
    CASE psrc.kind = "ok" -> [status |-> "ok", PRODUCTS |-> psrc.data]
      [] psrc.kind \in {"missing", "corrupt"} -> [status |-> "ok", PRODUCTS |-> <<>>]
      [] OTHER -> [status |-> "ValidationError", PRODUCTS |-> products]

\* the outcomes of load_data() on the globals (products, orders, graph)
load_data(psrc, osrc, products, orders, graph) ==
    LET p1 == load_products(psrc, products)
    IN  IF p1.status # "ok"
        THEN {[status |-> p1.status, PRODUCTS |-> p1.PRODUCTS, ORDERS |-> orders,
               CO_PURCHASE_MAP |-> graph]}
        ELSE CASE osrc.kind = "ok" ->
                    {[status |-> "ok",
                      PRODUCTS |-> calculate_popularity_scores(p1.PRODUCTS, osrc.data),
                      ORDERS |-> osrc.data,
                      CO_PURCHASE_MAP |-> g] : g \in build_recommendation_graph(osrc.data)}
               [] osrc.kind \in {"missing", "corrupt"} ->
                    {[status |-> "ok", PRODUCTS |-> p1.PRODUCTS, ORDERS |-> <<>>,
                      CO_PURCHASE_MAP |-> graph]}
               [] OTHER ->
                    {[status |-> "ValidationError", PRODUCTS |-> p1.PRODUCTS,
                      ORDERS |-> orders, CO_PURCHASE_MAP |-> graph]}

-----------------------------------------------------------------------------
(* Inputs *)

\* the keyword arguments of filter_products / get_faceted_metadata
Query(search, categories, brands, min_price, max_price, sort_by, availability, page, limit) ==
    [search |-> search, categories |-> categories, brands |-> brands,
     min_price |-> min_price, max_price |-> max_price, sort_by |-> sort_by,
     availability |-> availability, page |-> page, limit |-> limit]

\* products whose texts share tokens across fields, whose brands and
\* categories share normalized keys ("A", "a" / "c", "C!") and whose prices
\* and ratings tie
P1 == Product("p1", <<"a">>, <<>>, 2, <<"c">>, <<"A">>, 1, TRUE)
P2 == Product("p2", <<"a", "!", "b">>, <<"d">>, 1, <<"C", "!">>, <<"a">>, 1, FALSE)
P3 == Product("p3", <<"b">>, <<"_">>, 3, <<"d">>, <<"b">>, 2, FALSE)
P4 == Product("p4", <<"B", " ", "a">>, <<>>, 1, <<"b">>, <<"D", "!">>, 2, TRUE)
ProductPool == {P1, P2, P3, P4}

\* the product lists of at most n distinct pool products
Catalogs(n) ==
    {c \in SeqUpTo(ProductPool, n) : \A i, j \in DOMAIN c : i # j => c[i] # c[j]}

Order(items) == [items |-> items]

\* order histories: none; one order; two orders with a repeated line, a
\* quantity above one and an id ("x") that no product has
Orders0 == <<>>
Orders1 == <<Order(<<OrderItem("p1", 1), OrderItem("p2", 1)>>)>>
Orders2 ==
    <<Order(<<OrderItem("p2", 3), OrderItem("p3", 1), OrderItem("p2", 1)>>),
      Order(<<OrderItem("x", 1), OrderItem("p2", 1)>>)>>

SearchValues ==
    {None, Some(<<>>), Some(<<" ">>), Some(<<"!">>), Some(<<"_">>), Some(<<"a">>),
     Some(<<"A", " ", "b">>), Some(<<"z">>)}
CategoryValues ==
    {None, Some(<<>>), Some(<<<<"c">>>>), Some(<<<<"D">>, <<"c", "!">>>>), Some(<<<<"z">>>>)}
BrandValues ==
    {None, Some(<<<<"a", "!">>>>), Some(<<<<"b">>, <<"A">>>>), Some(<<<<"z">>>>)}
MinPriceValues == {None, Some(2)}
MaxPriceValues == {None, Some(2)}
AvailabilityValues == {None, Some("in-stock"), Some("sold-out")}
SortValues == {None, Some("price_asc"), Some("price_desc"), Some("rating"), Some("popular")}

-----------------------------------------------------------------------------
(* State machine *)

Idle == [op |-> "none"]

\* the state after the modules are imported
Init ==
    /\ PRODUCTS = <<>>
    /\ ORDERS = <<>>
    /\ CO_PURCHASE_MAP = EmptyDict
    /\ SEARCH_INDEX = EmptyDict
    /\ IS_INDEX_BUILT = FALSE
    /\ loaded = <<>>
    /\ call = Idle

\* load_data() with the two source files as given
LoadData(psrc, osrc) ==
    /\ call.op = "none"
    /\ \E out \in load_data(psrc, osrc, PRODUCTS, ORDERS, CO_PURCHASE_MAP) :
        /\ PRODUCTS' = out.PRODUCTS
        /\ ORDERS' = out.ORDERS
        /\ CO_PURCHASE_MAP' = out.CO_PURCHASE_MAP
        /\ loaded' = out.PRODUCTS
        /\ call' = [op |-> "load", args |-> [products |-> psrc.kind, orders |-> osrc.kind],
                    result |-> [status |-> out.status]]
    /\ UNCHANGED <<SEARCH_INDEX, IS_INDEX_BUILT>>

\* GET /api/products: filter_products(**q)
FilterProducts(q) ==
    /\ call.op = "none"
    /\ \E out \in {filter_products(q, PRODUCTS, SEARCH_INDEX, IS_INDEX_BUILT)} :
           /\ PRODUCTS' = out.PRODUCTS
           /\ SEARCH_INDEX' = out.SEARCH_INDEX
           /\ IS_INDEX_BUILT' = out.IS_INDEX_BUILT
           /\ call' = [op |-> "filter", args |-> q,
                       pre |-> [PRODUCTS |-> PRODUCTS, SEARCH_INDEX |-> SEARCH_INDEX,
                                IS_INDEX_BUILT |-> IS_INDEX_BUILT],
                       result |-> out.result]
    /\ UNCHANGED <<ORDERS, CO_PURCHASE_MAP, loaded>>

\* GET /api/metadata: get_faceted_metadata(**q)
GetFacetedMetadata(q) ==
    /\ call.op = "none"
    /\ \E out \in {get_faceted_metadata(q, PRODUCTS, SEARCH_INDEX, IS_INDEX_BUILT)} :
           /\ SEARCH_INDEX' = out.SEARCH_INDEX
           /\ IS_INDEX_BUILT' = out.IS_INDEX_BUILT
           /\ call' = [op |-> "facets", args |-> q,
                       pre |-> [PRODUCTS |-> PRODUCTS, SEARCH_INDEX |-> SEARCH_INDEX,
                                IS_INDEX_BUILT |-> IS_INDEX_BUILT],
                       result |-> out.result]
    /\ UNCHANGED <<PRODUCTS, ORDERS, CO_PURCHASE_MAP, loaded>>

\* GET /api/products/{product_id}/recommendations
GetRecommendations(product_id) ==
    /\ call.op = "none"
    /\ call' = [op |-> "recommendations", args |-> product_id,
                pre |-> [PRODUCTS |-> PRODUCTS, CO_PURCHASE_MAP |-> CO_PURCHASE_MAP],
                result |-> [status |-> "ok",
                            items |-> get_recommendations(product_id, PRODUCTS, CO_PURCHASE_MAP)]]
    /\ UNCHANGED <<progVars, loaded>>

\* the response leaves the process; the next request can be served
Deliver ==
    /\ call.op # "none"
    /\ call' = Idle
    /\ UNCHANGED <<progVars, loaded>>

-----------------------------------------------------------------------------
(* The service: any sequence of loads and requests, one at a time *)

ProductSources ==
    {Source("ok", c) : c \in Catalogs(MaxReload)}
        \cup {Source(k, <<>>) : k \in {"missing", "corrupt", "invalid"}}

OrderSources ==
    {Source("ok", o) : o \in {Orders0, Orders1, Orders2}}
        \cup {Source(k, <<>>) : k \in {"missing", "corrupt", "invalid"}}

ServiceQueries ==
    {Query(s, c, None, None, None, o, None, 1, MaxLimit) :
        s \in {None, Some(<<"a">>), Some(<<"A", " ", "b">>)},
        c \in {None, Some(<<<<"c">>>>)},
        o \in SortValues}

ServiceFacetQueries ==
    {Query(s, c, None, None, None, None, None, 1, MaxLimit) :
        s \in {None, Some(<<"a">>)},
        c \in {None, Some(<<<<"c">>>>)}}

ServiceProductIds == {"p1", "p2", "x"}

Next ==
    \/ \E psrc \in ProductSources, osrc \in OrderSources : LoadData(psrc, osrc)
    \/ \E q \in ServiceQueries : FilterProducts(q)
    \/ \E q \in ServiceFacetQueries : GetFacetedMetadata(q)
    \/ \E product_id \in ServiceProductIds : GetRecommendations(product_id)
    \/ Deliver

Spec == Init /\ [][Next]_vars

-----------------------------------------------------------------------------
(* Claims about the service *)

\* every token of the query is among the normalized tokens of the product's
\* name, description, brand and category
TextMatches(p, query) ==
    /\ normalize_tokens(query) # {}
    /\ normalize_tokens(query) \subseteq normalize_tokens(index_content(p))

FilterReturned == call.op = "filter" /\ call.result.status = "ok"

\* C1: filter_products is a pure read of the catalog: after the call
\* get_all_products() returns the same products in the same order as before
C1_FilterLeavesCatalog ==
    call.op = "filter" => PRODUCTS = call.pre.PRODUCTS

\* C2: after every load, a search returns exactly the products of the current
\* catalog whose indexed text holds all query tokens (as it does when the
\* index in use is the one built from the current product list)
C2_SearchUsesCurrentCatalog ==
    (FilterReturned /\ search_active(call.args.search)) =>
        /\ call.result.total =
            Len(filter_stage(call.args,
                    SelectSeq(PRODUCTS, LAMBDA p : TextMatches(p, Val(call.args.search)))))
        /\ \A i \in DOMAIN call.result.items :
            /\ call.result.items[i] \in Range(PRODUCTS)
            /\ TextMatches(call.result.items[i], Val(call.args.search))

\* the place of a product in the list the last load stored
LoadPosition(p) == CHOOSE i \in DOMAIN loaded : loaded[i].id = p.id

\* C7 (first half): without sort_by the items come in the order of the load
C7_NaturalOrder ==
    (FilterReturned /\ IsNone(call.args.sort_by)) =>
        \A i, j \in DOMAIN call.result.items :
            i < j => LoadPosition(call.result.items[i]) < LoadPosition(call.result.items[j])

\* C7 (second half): serving a request changes the answer to no query
C7_RepeatStable ==
    call'.op \in {"filter", "facets", "recommendations"} =>
        \A q \in ServiceQueries :
            filter_products(q, PRODUCTS', SEARCH_INDEX', IS_INDEX_BUILT').result
                = filter_products(q, PRODUCTS, SEARCH_INDEX, IS_INDEX_BUILT).result

\* C7: a query without sort returns the matches in load order, and a repeated
\* query returns the same items whatever requests were served in between
C7_NaturalOrderAndRepeatable == [](C7_NaturalOrder) /\ [][C7_RepeatStable]_vars

\* C11: after a load whose orders source is missing or corrupt the co-purchase
\* graph is empty (no id has a recommendation), every product of the catalog
\* has popularity_score 0, and the catalog of that load is the one served
C11_OrdersFailureDisablesAnalytics ==
    (call.op = "load" /\ call.result.status = "ok"
        /\ call.args.orders \in {"missing", "corrupt"}) =>
        /\ CO_PURCHASE_MAP = EmptyDict
        /\ \A id \in ServiceProductIds : get_recommended_product_ids(id, 3, CO_PURCHASE_MAP) = <<>>
        /\ \A i \in DOMAIN PRODUCTS : PRODUCTS[i].popularity_score = 0
        /\ PRODUCTS = loaded

\* C14: load_data never raises, whatever fails in a source (missing file,
\* unparseable JSON, a record the model rejects): the failed source counts as
\* an empty collection, so a failed products source leaves an empty catalog
C14_LoadNeverRaises ==
    call.op = "load" =>
        /\ call.result.status = "ok"
        /\ call.args.products # "ok" => PRODUCTS = <<>>
        /\ call.args.orders # "ok" => ORDERS = <<>>

-----------------------------------------------------------------------------
(* The query engine on one loaded catalog: the state a test sets up (a       *)
(* product list behind get_all_products, the index reset) and then any      *)
(* sequence of filter_products calls: the filter and search queries in one  *)
(* specification, the sort and pagination queries in another                *)

InitLoaded ==
    \E c \in Catalogs(MaxProducts) :
        \E out \in load_data(Source("ok", c), Source("ok", Orders2), <<>>, <<>>, EmptyDict) :
            /\ PRODUCTS = out.PRODUCTS
            /\ ORDERS = out.ORDERS
            /\ CO_PURCHASE_MAP = out.CO_PURCHASE_MAP
            /\ SEARCH_INDEX = EmptyDict
            /\ IS_INDEX_BUILT = FALSE
            /\ loaded = out.PRODUCTS
            /\ call = Idle

\* every combination of the filter dimensions, on one page that holds all
FilterFamily ==
    {Query(None, c, b, lo, hi, None, a, 1, MaxProducts) :
        c \in CategoryValues \ {Some(<<>>)}, b \in BrandValues,
        lo \in MinPriceValues, hi \in MaxPriceValues, a \in AvailabilityValues}

\* every search string
SearchFamily ==
    {Query(s, c, b, None, None, None, None, 1, MaxProducts) :
        s \in SearchValues, c \in {None, Some(<<>>), Some(<<<<"c">>>>)},
        b \in {None, Some(<<<<"a", "!">>>>)}}

FilterQueries == FilterFamily \cup SearchFamily

NextFilter ==
    \/ \E q \in FilterQueries : FilterProducts(q)
    \/ Deliver

SpecFilter == InitLoaded /\ [][NextFilter]_vars

\* every sort key (and one that is not recognised)
SortFamily ==
    {Query(s, c, None, None, None, o, a, 1, MaxProducts) :
        s \in {None, Some(<<"a">>)}, c \in {None, Some(<<<<"D">>, <<"c", "!">>>>)},
        o \in SortValues \cup {Some("newest")}, a \in {None, Some("sold-out")}}

\* every page and page size
PageFamily ==
    {Query(None, None, b, None, None, o, None, page, limit) :
        b \in {None, Some(<<<<"b">>, <<"A">>>>)}, o \in {None, Some("price_desc")},
        page \in 1..MaxPage, limit \in 1..MaxLimit}

\* pages and page sizes that the route would reject: page < 1, limit <= 0
BoundaryFamily ==
    {Query(None, None, None, None, None, None, None, page, limit) :
        page \in {0 - 1, 0}, limit \in 1..MaxLimit}
    \cup {Query(None, None, None, None, None, None, None, page, limit) :
        page \in 1..2, limit \in {0 - 1, 0}}

SortQueries == SortFamily \cup PageFamily \cup BoundaryFamily

NextSort ==
    \/ \E q \in SortQueries : FilterProducts(q)
    \/ Deliver

SpecSort == InitLoaded /\ [][NextSort]_vars

-----------------------------------------------------------------------------
(* Claims about filter_products *)

\* the products of a list that a search string selects: all of them when the
\* string is absent, empty or blank
SearchMatched(products, search) ==
    IF search_active(search)
    THEN SelectSeq(products, LAMBDA p : TextMatches(p, Val(search)))
    ELSE products

\* the normalized tokens of the four text fields of a product
FieldTokens(p) ==
    normalize_tokens(p.name) \cup normalize_tokens(p.description)
        \cup normalize_tokens(p.brand) \cup normalize_tokens(p.category)

\* C16: with an index built from the catalog, search_with_index for a query
\* with at least one token returns exactly the products whose name,
\* description, brand and category hold every query token, in catalog order
\* and each once; that list is what filter_products returns when nothing
\* else is filtered
C16_SearchIsTokenConjunction ==
    (FilterReturned /\ search_active(call.args.search)
        /\ normalize_tokens(Val(call.args.search)) # {}) =>
        LET query == Val(call.args.search)
            all_products == call.pre.PRODUCTS
            found == search_with_index(query, all_products,
                                       build_search_index(all_products), TRUE).items
        IN  /\ found = SelectSeq(all_products,
                            LAMBDA p : normalize_tokens(query) \subseteq FieldTokens(p))
            /\ (~list_active(call.args.categories) /\ ~list_active(call.args.brands))
                => call.result.items = found

\* a query of two tokens that returns a product and leaves out one that
\* holds only one of the tokens
C16_Witness ==
    /\ FilterReturned
    /\ call.args.search = Some(<<"A", " ", "b">>)
    /\ ~list_active(call.args.categories) /\ ~list_active(call.args.brands)
    /\ call.result.items # <<>>
    /\ \E i \in DOMAIN call.pre.PRODUCTS :
        /\ <<"a">> \in FieldTokens(call.pre.PRODUCTS[i])
        /\ call.pre.PRODUCTS[i] \notin Range(call.result.items)

\* a multi-select dimension: the normalized key of the product's value equals
\* the normalized key of one of the requested values
AnyKeyEqual(value, requested) ==
    list_active(requested) =>
        \E i \in DOMAIN Val(requested) : normalize_key(value) = normalize_key(Val(requested)[i])

CategoryOk(p, q) == AnyKeyEqual(p.category, q.categories)
BrandOk(p, q) == AnyKeyEqual(p.brand, q.brands)
PriceOk(p, q) ==
    /\ ~IsNone(q.min_price) => p.price >= Val(q.min_price)
    /\ ~IsNone(q.max_price) => p.price <= Val(q.max_price)
AvailabilityOk(p, q) ==
    /\ q.availability = Some("in-stock") => p.in_stock
    /\ q.availability = Some("sold-out") => ~p.in_stock

\* the products of the catalog that the query asks for
Wanted(products, q) ==
    {p \in Range(SearchMatched(products, q.search)) :
        CategoryOk(p, q) /\ BrandOk(p, q) /\ PriceOk(p, q) /\ AvailabilityOk(p, q)}

\* the page holds every match
OnePage == call.args.page = 1 /\ call.args.limit >= Len(call.pre.PRODUCTS)

\* the place of a product in a list
Position(list, p) == CHOOSE k \in DOMAIN list : list[k] = p

\* ceil(a / b) for a >= 0, b >= 1
CeilDiv(a, b) == CHOOSE k \in 0..a : k * b >= a /\ (k = 0 \/ (k - 1) * b < a)

\* C9: the products returned are exactly those that satisfy every active
\* filter dimension (OR inside categories and inside brands by normalized key,
\* AND across category, brand, inclusive price bounds and availability); a
\* brand or category value that no product has gives an empty result
C9_ExactlyTheMatches ==
    FilterReturned =>
        LET q == call.args
            wanted == Wanted(call.pre.PRODUCTS, q)
            base == Range(SearchMatched(call.pre.PRODUCTS, q.search))
        IN  /\ call.result.total = Cardinality(wanted)
            /\ Range(call.result.items) \subseteq wanted
            /\ OnePage =>
                /\ Range(call.result.items) = wanted
                /\ Len(call.result.items) = Cardinality(wanted)
            /\ (list_active(q.brands) /\ \A p \in base : ~BrandOk(p, q))
                => call.result.items = <<>>
            /\ (list_active(q.categories) /\ \A p \in base : ~CategoryOk(p, q))
                => call.result.items = <<>>

\* a query with two requested brands, a category and a price bound that
\* returns some products of the catalog and leaves others out
C9_Witness ==
    /\ FilterReturned
    /\ OnePage
    /\ list_active(call.args.brands) /\ Len(Val(call.args.brands)) = 2
    /\ list_active(call.args.categories)
    /\ ~IsNone(call.args.max_price)
    /\ Len(call.result.items) >= 2
    /\ Len(call.result.items) < Len(call.pre.PRODUCTS)
    /\ \E i \in DOMAIN call.result.items : call.result.items[i].brand \notin Range(Val(call.args.brands))

\* C6: for every recognised sort key the items are the working list in key
\* order, and two items with equal key keep the relative order they have in
\* the unsorted working list
C6_SortIsStable ==
    (FilterReturned /\ OnePage /\ ~IsNone(call.args.sort_by)
        /\ Val(call.args.sort_by) \in {"price_asc", "price_desc", "rating", "popular"}) =>
        LET q == call.args
            by == Val(q.sort_by)
            work == filter_stage(q, SearchMatched(call.pre.PRODUCTS, q.search))
            items == call.result.items
        IN  /\ Len(items) = Len(work)
            /\ Range(items) = Range(work)
            /\ \A i, j \in DOMAIN items :
                i < j =>
                    /\ IF by = "price_asc"
                       THEN sort_key(items[i], by) <= sort_key(items[j], by)
                       ELSE sort_key(items[i], by) >= sort_key(items[j], by)
                    /\ sort_key(items[i], by) = sort_key(items[j], by)
                        => Position(work, items[i]) < Position(work, items[j])

\* a descending sort that moved products and returned two with equal price
C6_Witness ==
    /\ FilterReturned
    /\ OnePage
    /\ call.args.sort_by = Some("price_desc")
    /\ call.result.items # filter_stage(call.args,
                                SearchMatched(call.pre.PRODUCTS, call.args.search))
    /\ \E i, j \in DOMAIN call.result.items :
        i < j /\ call.result.items[i].price = call.result.items[j].price

\* no character of the string is alphanumeric or whitespace
punctuation_only(text) ==
    text # <<>> /\ \A i \in DOMAIN text : ~isalnum(text[i]) /\ ~is_space(text[i])

\* every character of the string (if any) is whitespace
blank(text) == \A i \in DOMAIN text : is_space(text[i])

\* C8: a search string of punctuation only returns no item and total 0; an
\* empty or blank search string returns what the same query returns without
\* search
C8_PunctuationFindsNothing ==
    (FilterReturned /\ ~IsNone(call.args.search)) =>
        /\ punctuation_only(Val(call.args.search)) =>
            call.result.items = <<>> /\ call.result.total = 0
        /\ blank(Val(call.args.search)) =>
            call.result =
                filter_products([call.args EXCEPT !.search = None], call.pre.PRODUCTS,
                                call.pre.SEARCH_INDEX, call.pre.IS_INDEX_BUILT).result

\* the number of products the query matches before pagination
MatchedCount == Len(filter_stage(call.args,
                        SearchMatched(call.pre.PRODUCTS, call.args.search)))

\* C10: with limit >= 1 and a page behind the last one the call returns
\* without raising: no items, total the number of matches before pagination,
\* page the requested page and total_pages = ceil(total / limit)
C10_PageBeyondLast ==
    (call.op = "filter" /\ call.args.limit >= 1
        /\ call.args.page > CeilDiv(MatchedCount, call.args.limit)) =>
        /\ call.result.status = "ok"
        /\ call.result.items = <<>>
        /\ call.result.total = MatchedCount
        /\ call.result.page = call.args.page
        /\ call.result.total_pages = CeilDiv(MatchedCount, call.args.limit)

\* C18: for every integer page and limit filter_products returns without
\* raising, and when the page is outside 1..total_pages there is no item and
\* total is the number of matches before pagination
C18_AnyPageAndLimit ==
    call.op = "filter" =>
        /\ call.result.status = "ok"
        /\ call.args.page \notin 1..call.result.total_pages =>
            /\ call.result.items = <<>>
            /\ call.result.total = MatchedCount

\* three matches in pages of two, and the page asked for is the fourth
C10_Witness ==
    /\ FilterReturned
    /\ call.args.limit = 2
    /\ call.args.page = 4
    /\ call.result.total = 3
    /\ call.result.total_pages = 2
    /\ call.result.items = <<>>

-----------------------------------------------------------------------------
(* The facets on one loaded catalog: any sequence of get_faceted_metadata    *)
(* calls                                                                     *)

FacetQueries ==
    {Query(s, c, b, lo, hi, None, a, 1, MaxProducts) :
        s \in {None, Some(<<"a">>)}, c \in CategoryValues \ {Some(<<>>)},
        b \in BrandValues \ {Some(<<<<"z">>>>)},
        lo \in MinPriceValues, hi \in MaxPriceValues, a \in AvailabilityValues}

NextFacets ==
    \/ \E q \in FacetQueries : GetFacetedMetadata(q)
    \/ Deliver

SpecFacets == InitLoaded /\ [][NextFacets]_vars

\* the count a facet list gives a name: 0 when the name is not listed
FacetCount(facets, name) ==
    IF \E k \in DOMAIN facets : facets[k].name = name
    THEN (facets[CHOOSE k \in DOMAIN facets : facets[k].name = name]).count
    ELSE 0

\* a facet list names nothing twice and nothing with count 0
FacetsWellFormed(facets) ==
    /\ \A k \in DOMAIN facets : facets[k].count > 0
    /\ \A k, l \in DOMAIN facets : facets[k].name = facets[l].name => k = l

\* C3: each count facet leaves out its own selection and applies every other
\* active filter: categories are counted over the products matching search,
\* brands, price range and availability; brands over those matching search,
\* categories, price range and availability; in-stock / sold-out over those
\* matching search, categories, brands and price range
C3_FacetsExcludeOwnSelection ==
    call.op = "facets" =>
        LET q == call.args
            base == Range(SearchMatched(call.pre.PRODUCTS, q.search))
            for_categories == {p \in base : BrandOk(p, q) /\ PriceOk(p, q) /\ AvailabilityOk(p, q)}
            for_brands == {p \in base : CategoryOk(p, q) /\ PriceOk(p, q) /\ AvailabilityOk(p, q)}
            for_availability == {p \in base : CategoryOk(p, q) /\ BrandOk(p, q) /\ PriceOk(p, q)}
        IN  /\ FacetsWellFormed(call.result.categories)
            /\ FacetsWellFormed(call.result.brands)
            /\ {call.result.categories[k].name : k \in DOMAIN call.result.categories}
                = {p.category : p \in for_categories}
            /\ \A c \in {p.category : p \in for_categories} :
                FacetCount(call.result.categories, c)
                    = Cardinality({p \in for_categories : p.category = c})
            /\ {call.result.brands[k].name : k \in DOMAIN call.result.brands}
                = {p.brand : p \in for_brands}
            /\ \A b \in {p.brand : p \in for_brands} :
                FacetCount(call.result.brands, b)
                    = Cardinality({p \in for_brands : p.brand = b})
            /\ call.result.availability[1].value = "in-stock"
            /\ call.result.availability[1].count
                = Cardinality({p \in for_availability : p.in_stock})
            /\ call.result.availability[2].value = "sold-out"
            /\ call.result.availability[2].count
                = Cardinality({p \in for_availability : ~p.in_stock})

\* a request that selects a category, two brands and "sold-out", and whose
\* facets still count a category outside the selection and the products in
\* stock
C3_Witness ==
    /\ call.op = "facets"
    /\ list_active(call.args.categories)
    /\ list_active(call.args.brands)
    /\ call.args.availability = Some("sold-out")
    /\ \E k \in DOMAIN call.result.categories :
        normalize_key(call.result.categories[k].name) \notin target_keys(call.args.categories)
    /\ call.result.brands # <<>>
    /\ call.result.availability[1].count > 0

\* C15: minPrice and maxPrice are the least and the greatest price of the
\* products matching search, categories, brands and availability, whatever
\* min_price and max_price are requested; both are 0 when no product matches
C15_PriceBoundsOfCandidates ==
    call.op = "facets" =>
        LET q == call.args
            candidates == {p \in Range(SearchMatched(call.pre.PRODUCTS, q.search)) :
                              CategoryOk(p, q) /\ BrandOk(p, q) /\ AvailabilityOk(p, q)}
        IN  IF candidates = {}
            THEN call.result.minPrice = 0 /\ call.result.maxPrice = 0
            ELSE /\ \E p \in candidates : p.price = call.result.minPrice
                 /\ \E p \in candidates : p.price = call.result.maxPrice
                 /\ \A p \in candidates :
                        call.result.minPrice <= p.price /\ p.price <= call.result.maxPrice

\* a request with a category, a lower and an upper price bound whose
\* minPrice is below the requested minimum and maxPrice above the requested
\* maximum
C15_Witness ==
    /\ call.op = "facets"
    /\ list_active(call.args.categories)
    /\ ~IsNone(call.args.min_price) /\ call.result.minPrice < Val(call.args.min_price)
    /\ ~IsNone(call.args.max_price) /\ call.result.maxPrice > Val(call.args.max_price)

\* the query that selects one category (one brand) by the name a facet lists
WithCategory(q, name) == [q EXCEPT !.categories = Some(<<name>>)]
WithBrand(q, name) == [q EXCEPT !.brands = Some(<<name>>)]

\* C20: for every entry {name, count} of the categories (brands) facet,
\* filter_products with the same other arguments and categories = [name]
\* (brands = [name]) returns total = count
C20_FacetCountIsFilterTotal ==
    call.op = "facets" =>
        /\ \A k \in DOMAIN call.result.categories :
            filter_products(WithCategory(call.args, call.result.categories[k].name),
                            call.pre.PRODUCTS, call.pre.SEARCH_INDEX,
                            call.pre.IS_INDEX_BUILT).result.total
                = call.result.categories[k].count
        /\ \A k \in DOMAIN call.result.brands :
            filter_products(WithBrand(call.args, call.result.brands[k].name),
                            call.pre.PRODUCTS, call.pre.SEARCH_INDEX,
                            call.pre.IS_INDEX_BUILT).result.total
                = call.result.brands[k].count

-----------------------------------------------------------------------------
(* The analytics of load_data: calculate_popularity_scores(PRODUCTS, ORDERS) *)
(* and then build_recommendation_graph(ORDERS), on any parsed order list     *)

\* line items: a quantity above one, and an id ("x") that no product has
LinePool == {OrderItem("p1", 1), OrderItem("p2", 3), OrderItem("x", 1)}

\* the ways to end k orders within n lines: ends[i] is the last line of order i
OrderEnds(n, k) ==
    {ends \in [1..k -> 0..n] :
        /\ IF k = 0 THEN n = 0 ELSE ends[k] = n
        /\ \A i \in 1..(k - 1) : ends[i] <= ends[i + 1]}

\* the order list that holds the lines in order, order i ending at ends[i]
OrderList(lines, ends) ==
    [i \in DOMAIN ends |->
        Order(SubSeq(lines, (IF i = 1 THEN 0 ELSE ends[i - 1]) + 1, ends[i]))]

\* the globals when line 107 is reached: any catalog of two or three products
\* and any order list of at most MaxOrders orders with at most MaxLines line
\* items together
InitAnalytics ==
    /\ PRODUCTS \in {<<P1, P2>>, <<P3, P2, P1>>}
    /\ \E lines \in SeqUpTo(LinePool, MaxLines), k \in 0..MaxOrders :
        \E ends \in OrderEnds(Len(lines), k) : ORDERS = OrderList(lines, ends)
    /\ CO_PURCHASE_MAP = EmptyDict
    /\ SEARCH_INDEX = EmptyDict
    /\ IS_INDEX_BUILT = FALSE
    /\ loaded = PRODUCTS
    /\ call = Idle

\* database.py line 107
CalculatePopularityScores ==
    /\ call.op = "none"
    /\ PRODUCTS' = calculate_popularity_scores(PRODUCTS, ORDERS)
    /\ call' = [op |-> "scores", pre |-> [PRODUCTS |-> PRODUCTS]]
    /\ UNCHANGED <<ORDERS, CO_PURCHASE_MAP, SEARCH_INDEX, IS_INDEX_BUILT, loaded>>

\* database.py line 108
BuildRecommendationGraph ==
    /\ call.op = "scores"
    /\ CO_PURCHASE_MAP' \in build_recommendation_graph(ORDERS)
    /\ call' = [op |-> "graph", pre |-> call.pre]
    /\ UNCHANGED <<PRODUCTS, ORDERS, SEARCH_INDEX, IS_INDEX_BUILT, loaded>>

NextAnalytics ==
    \/ CalculatePopularityScores
    \/ BuildRecommendationGraph

SpecAnalytics == InitAnalytics /\ [][NextAnalytics]_vars

\* the orders with at least one line item of the product
OrdersWith(id) ==
    {k \in DOMAIN ORDERS : \E j \in DOMAIN ORDERS[k].items : ORDERS[k].items[j].product_id = id}

\* C4: after calculate_popularity_scores every product's popularity_score is
\* the number of orders with at least one line of the product, whatever the
\* quantities and the repeated lines; nothing else of the product list changes
C4_ScoreCountsOrders ==
    call.op \in {"scores", "graph"} =>
        /\ Len(PRODUCTS) = Len(call.pre.PRODUCTS)
        /\ \A i \in DOMAIN PRODUCTS :
            /\ PRODUCTS[i].popularity_score = Cardinality(OrdersWith(PRODUCTS[i].id))
            /\ PRODUCTS[i] = [call.pre.PRODUCTS[i] EXCEPT
                                !.popularity_score = PRODUCTS[i].popularity_score]

\* an order with a repeated line of p2 (quantity 3 each) and a line of an id
\* that no product has; p2 scores 1 and a product in no order scores 0
C4_Witness ==
    /\ call.op = "scores"
    /\ \E k \in DOMAIN ORDERS :
        /\ Cardinality({j \in DOMAIN ORDERS[k].items :
                            ORDERS[k].items[j].product_id = "p2"}) = 2
        /\ \E j \in DOMAIN ORDERS[k].items : ORDERS[k].items[j].product_id = "x"
    /\ \E i, j \in DOMAIN PRODUCTS :
        /\ PRODUCTS[i].id = "p2" /\ PRODUCTS[i].popularity_score = 1
        /\ PRODUCTS[j].popularity_score = 0

\* every id of an order line
OrderedIds == UNION {order_item_ids(ORDERS[k]) : k \in DOMAIN ORDERS}

\* the entries CO_PURCHASE_MAP[a] has for b
Entries(a, b) ==
    IF a \in DOMAIN CO_PURCHASE_MAP
    THEN {k \in DOMAIN CO_PURCHASE_MAP[a] : CO_PURCHASE_MAP[a][k].id = b}
    ELSE {}

\* CO_PURCHASE_MAP[a][b], 0 when there is no entry
Weight(a, b) ==
    IF Entries(a, b) = {} THEN 0
    ELSE CO_PURCHASE_MAP[a][CHOOSE k \in Entries(a, b) : TRUE].count

\* C5: after build_recommendation_graph, for all ids a # b the weight of
\* (a, b) equals the weight of (b, a) and the number of orders with both; the
\* entry is absent exactly when that number is 0; no id is its own neighbour
C5_GraphSymmetric ==
    call.op = "graph" =>
        /\ DOMAIN CO_PURCHASE_MAP \subseteq OrderedIds
        /\ \A a \in DOMAIN CO_PURCHASE_MAP :
            \A k \in DOMAIN CO_PURCHASE_MAP[a] : CO_PURCHASE_MAP[a][k].id \in OrderedIds
        /\ \A a, b \in OrderedIds \cup {PRODUCTS[i].id : i \in DOMAIN PRODUCTS} :
            IF a = b THEN Entries(a, a) = {}
            ELSE /\ Cardinality(Entries(a, b)) <= 1
                 /\ Weight(a, b) = Weight(b, a)
                 /\ Weight(a, b) = Cardinality(OrdersWith(a) \cap OrdersWith(b))
                 /\ (Entries(a, b) = {}) <=> (OrdersWith(a) \cap OrdersWith(b) = {})

\* two orders with p1 and p2, one of them with a repeated line of p1: the
\* weight is 2 in both directions
C5_Witness ==
    /\ call.op = "graph"
    /\ Weight("p1", "p2") = 2
    /\ Weight("p2", "p1") = 2
    /\ \E k \in DOMAIN ORDERS :
        Cardinality({j \in DOMAIN ORDERS[k].items :
                        ORDERS[k].items[j].product_id = "p1"}) >= 2
    /\ Weight("p1", "x") = 0

-----------------------------------------------------------------------------
(* get_recommended_product_ids on a built graph: any sequence of calls with *)
(* any product id and any limit from 0 on                                   *)

\* three orders that give p1 the neighbours p2 (once), p3 and x (twice each)
Orders3 ==
    <<Order(<<OrderItem("p1", 1), OrderItem("p2", 1), OrderItem("p3", 1)>>),
      Order(<<OrderItem("p1", 1), OrderItem("p3", 2), OrderItem("x", 1)>>),
      Order(<<OrderItem("x", 1), OrderItem("p1", 1)>>)>>

InitRecommend ==
    \E o \in {Orders0, Orders1, Orders2, Orders3} :
        \E out \in load_data(Source("ok", <<P1, P2, P3>>), Source("ok", o),
                              <<>>, <<>>, EmptyDict) :
            /\ PRODUCTS = out.PRODUCTS
            /\ ORDERS = out.ORDERS
            /\ CO_PURCHASE_MAP = out.CO_PURCHASE_MAP
            /\ SEARCH_INDEX = EmptyDict
            /\ IS_INDEX_BUILT = FALSE
            /\ loaded = out.PRODUCTS
            /\ call = Idle

\* get_recommended_product_ids(product_id, limit)
GetRecommendedProductIds(product_id, limit) ==
    /\ call.op = "none"
    /\ call' = [op |-> "recommended_ids",
                args |-> [product_id |-> product_id, limit |-> limit],
                result |-> get_recommended_product_ids(product_id, limit, CO_PURCHASE_MAP)]
    /\ UNCHANGED <<progVars, loaded>>

NextRecommend ==
    \/ \E product_id \in {"p1", "p2", "p3", "x", "p9"}, limit \in 0..MaxIds :
        GetRecommendedProductIds(product_id, limit)
    \/ Deliver

SpecRecommend == InitRecommend /\ [][NextRecommend]_vars

\* C17: get_recommended_product_ids returns [] for an id without neighbour
\* map; otherwise min(limit, number of neighbours) distinct neighbour ids in
\* non-increasing order of count, and no neighbour left out has a higher
\* count than one returned
C17_TopNeighbours ==
    call.op = "recommended_ids" =>
        LET id == call.args.product_id
            ids == call.result
        IN  IF id \notin DOMAIN CO_PURCHASE_MAP THEN ids = <<>>
            ELSE LET neighbors == {CO_PURCHASE_MAP[id][k].id : k \in DOMAIN CO_PURCHASE_MAP[id]}
                 IN  /\ Len(ids) = Min2(call.args.limit, Cardinality(neighbors))
                     /\ Range(ids) \subseteq neighbors
                     /\ \A i, j \in DOMAIN ids :
                            i < j => ids[i] # ids[j] /\ Weight(id, ids[i]) >= Weight(id, ids[j])
                     /\ \A n \in neighbors \ Range(ids) :
                            \A i \in DOMAIN ids : Weight(id, n) <= Weight(id, ids[i])

\* p1 has three neighbours, two are asked for, and the one left out has a
\* lower count than both returned
C17_Witness ==
    /\ call.op = "recommended_ids"
    /\ call.args.product_id = "p1"
    /\ call.args.limit = 2
    /\ Len(call.result) = 2
    /\ Weight("p1", "p2") = 1
    /\ "p2" \notin Range(call.result)
    /\ Weight("p1", call.result[1]) = 2

-----------------------------------------------------------------------------
(* The normalization on any text of letters in both cases, punctuation,     *)
(* underscores and spaces                                                   *)

TextChars == {"a", "A", "!", "_", " "}

\* normalize_text(text), normalize_tokens(text) and normalize_key twice
Normalize(text) ==
    /\ call.op = "none"
    /\ call' = [op |-> "normalize", args |-> text,
                result |-> [text |-> normalize_text(text),
                            tokens |-> normalize_tokens(text),
                            key |-> normalize_key(text),
                            key_of_key |-> normalize_key(normalize_key(text))]]
    /\ UNCHANGED <<progVars, loaded>>

NextNormalize ==
    \/ \E text \in SeqUpTo(TextChars, MaxText) : Normalize(text)
    \/ Deliver

SpecNormalize == Init /\ [][NextNormalize]_vars

\* C19: every character that is not alphanumeric is replaced by a space: no
\* token holds a punctuation character or an underscore, the normalized text
\* has no leading, trailing or repeated space, normalizing twice gives what
\* normalizing once gives, and the empty text gives the empty text and no
\* token
C19_OnlyAlphanumericTokens ==
    call.op = "normalize" =>
        LET out == call.result.text
        IN  /\ \A token \in call.result.tokens :
                token # <<>> /\ \A i \in DOMAIN token : isalnum(token[i])
            /\ out # <<>> => ~is_space(out[1]) /\ ~is_space(out[Len(out)])
            /\ \A i \in 1..(Len(out) - 1) : ~(is_space(out[i]) /\ is_space(out[i + 1]))
            /\ call.result.key_of_key = call.result.key
            /\ call.args = <<>> => out = <<>> /\ call.result.tokens = {}

-----------------------------------------------------------------------------
(* Concurrent searches. The endpoints are plain functions, which the server *)
(* runs on the threads of a pool; search_with_index and build_search_index  *)
(* take no lock, so the threads interleave between the statements that read *)
(* and write SEARCH_INDEX and IS_INDEX_BUILT. Here call holds one record    *)
(* per thread: its position in search_with_index and its local variables.   *)

Threads == 1..MaxThreads

ThreadQueries == {<<"a">>, <<"b">>}

ThreadIdle == [pc |-> "idle"]

\* one iteration of the loop over products in build_search_index
index_product(index, product) ==
    LET tokens == normalize_tokens(index_content(product))
    IN  [token \in DOMAIN index \cup tokens |->
            (IF token \in DOMAIN index THEN index[token] ELSE {})
                \cup (IF token \in tokens THEN {product.id} ELSE {})]

\* search_with_index after the rebuild check: the lookups in index
lookup(query, all_products, index) ==
    LET query_tokens == normalize_tokens(query)
        candidate_ids == Val(intersect_postings(index, query_tokens, None))
    IN  IF query_tokens = {} THEN <<>>
        ELSE SelectSeq(all_products, LAMBDA p : p.id \in candidate_ids)

InitConcurrent ==
    \E out \in load_data(Source("ok", <<P1, P3>>), Source("ok", Orders0), <<>>, <<>>, EmptyDict) :
        /\ PRODUCTS = out.PRODUCTS
        /\ ORDERS = out.ORDERS
        /\ CO_PURCHASE_MAP = out.CO_PURCHASE_MAP
        /\ SEARCH_INDEX = EmptyDict
        /\ IS_INDEX_BUILT = FALSE
        /\ loaded = out.PRODUCTS
        /\ call = [t \in Threads |-> ThreadIdle]

\* a thread enters search_with_index(query, get_all_products())
Search(t, query) ==
    /\ call[t].pc = "idle"
    /\ call' = [call EXCEPT ![t] = [pc |-> "check", query |-> query, all_products |-> PRODUCTS]]
    /\ UNCHANGED <<progVars, loaded>>

\* if not IS_INDEX_BUILT or not SEARCH_INDEX: call build_search_index
CheckIndex(t) ==
    /\ call[t].pc = "check"
    /\ call' = [call EXCEPT ![t].pc =
                    IF ~IS_INDEX_BUILT \/ DOMAIN SEARCH_INDEX = {} THEN "clear" ELSE "read"]
    /\ UNCHANGED <<progVars, loaded>>

\* SEARCH_INDEX.clear()
ClearIndex(t) ==
    /\ call[t].pc = "clear"
    /\ SEARCH_INDEX' = EmptyDict
    /\ call' = [call EXCEPT ![t] = [pc |-> "add", query |-> call[t].query,
                                    all_products |-> call[t].all_products, i |-> 1]]
    /\ UNCHANGED <<PRODUCTS, ORDERS, CO_PURCHASE_MAP, IS_INDEX_BUILT, loaded>>

\* the next product's tokens go into SEARCH_INDEX
AddProduct(t) ==
    /\ call[t].pc = "add"
    /\ call[t].i <= Len(call[t].all_products)
    /\ SEARCH_INDEX' = index_product(SEARCH_INDEX, call[t].all_products[call[t].i])
    /\ call' = [call EXCEPT ![t].i = @ + 1]
    /\ UNCHANGED <<PRODUCTS, ORDERS, CO_PURCHASE_MAP, IS_INDEX_BUILT, loaded>>

\* IS_INDEX_BUILT = True, and build_search_index returns
SetBuilt(t) ==
    /\ call[t].pc = "add"
    /\ call[t].i > Len(call[t].all_products)
    /\ IS_INDEX_BUILT' = TRUE
    /\ call' = [call EXCEPT ![t] = [pc |-> "read", query |-> call[t].query,
                                    all_products |-> call[t].all_products]]
    /\ UNCHANGED <<PRODUCTS, ORDERS, CO_PURCHASE_MAP, SEARCH_INDEX, loaded>>

\* the lookups of the query tokens in SEARCH_INDEX and the returned list
ReadIndex(t) ==
    /\ call[t].pc = "read"
    /\ call' = [call EXCEPT ![t] =
                    [pc |-> "done", query |-> call[t].query,
                     all_products |-> call[t].all_products,
                     seen |-> SEARCH_INDEX,
                     items |-> lookup(call[t].query, call[t].all_products, SEARCH_INDEX)]]
    /\ UNCHANGED <<progVars, loaded>>

\* the thread hands its response over and is free again
Return(t) ==
    /\ call[t].pc = "done"
    /\ call' = [call EXCEPT ![t] = ThreadIdle]
    /\ UNCHANGED <<progVars, loaded>>

NextConcurrent ==
    \E t \in Threads :
        \/ \E query \in ThreadQueries : Search(t, query)
        \/ CheckIndex(t)
        \/ ClearIndex(t)
        \/ AddProduct(t)
        \/ SetBuilt(t)
        \/ ReadIndex(t)
        \/ Return(t)

SpecConcurrent == InitConcurrent /\ [][NextConcurrent]_vars

\* the threads that have cleared SEARCH_INDEX and not yet set IS_INDEX_BUILT
Building == {t \in Threads : call[t].pc = "add"}

\* C12: while searches run concurrently on an index that is not built, at
\* most one execution of build_search_index is in progress at any time
C12_AtMostOneBuild == Cardinality(Building) <= 1

\* C13: no query reads a partially built index: the index a search looks its
\* tokens up in is a complete one, either the index of the whole catalog or
\* the one from before the first build, and never a half-filled one
C13_ReadsCompleteIndex ==
    \A t \in Threads :
        call[t].pc = "done" =>
            call[t].seen \in {EmptyDict, build_search_index(call[t].all_products)}

-----------------------------------------------------------------------------
(* The recommendations endpoint on any catalog of pool products, after a    *)
(* load of one of the order histories: the graph can name ids the catalog   *)
(* lacks, and the catalog lists its products in any order                   *)

InitRecommendations ==
    \E c \in Catalogs(MaxProducts), o \in {Orders0, Orders1, Orders2, Orders3} :
        \E out \in load_data(Source("ok", c), Source("ok", o), <<>>, <<>>, EmptyDict) :
            /\ PRODUCTS = out.PRODUCTS
            /\ ORDERS = out.ORDERS
            /\ CO_PURCHASE_MAP = out.CO_PURCHASE_MAP
            /\ SEARCH_INDEX = EmptyDict
            /\ IS_INDEX_BUILT = FALSE
            /\ loaded = out.PRODUCTS
            /\ call = Idle

NextRecommendations ==
    \/ \E product_id \in {"p1", "p2", "p3", "x", "p9"} : GetRecommendations(product_id)
    \/ Deliver

SpecRecommendations == InitRecommendations /\ [][NextRecommendations]_vars

\* the ranked ids of get_recommended_product_ids that the catalog holds, in
\* their rank order
RankedInCatalog(product_id, all_products, graph) ==
    SelectSeq(get_recommended_product_ids(product_id, 3, graph),
              LAMBDA id : \E i \in DOMAIN all_products : all_products[i].id = id)

\* C21: get_recommendations returns without error at most 3 products, all of
\* the current catalog and none the target itself, listed in the rank order
\* of get_recommended_product_ids (no product before one with a higher
\* co-occurrence count with the target); ranked ids the catalog lacks are
\* dropped
C21_RecommendationsInRankOrder ==
    call.op = "recommendations" =>
        LET items == call.result.items
            ranked == RankedInCatalog(call.args, call.pre.PRODUCTS, call.pre.CO_PURCHASE_MAP)
        IN  /\ call.result.status = "ok"
            /\ Len(items) <= 3
            /\ \A i \in DOMAIN items :
                    items[i] \in Range(call.pre.PRODUCTS) /\ items[i].id # call.args
            /\ {items[i].id : i \in DOMAIN items} = Range(ranked)
            /\ \A i, j \in DOMAIN items :
                    i < j => Weight(call.args, items[i].id) >= Weight(call.args, items[j].id)

====
